---------------------------- MODULE Spec2Model ----------------------------
(***************************************************************************)
(* A model of the PSX reverb LV2 plugin, src/psx-reverb.c.                 *)
(*                                                                         *)
(* The plugin instance (struct PsxReverb) is the state; the host's calls   *)
(* instantiate, activate, run, deactivate and cleanup are the actions.     *)
(* run() is followed sample by sample: RunBegin is the code before the     *)
(* for loop, RunSample one iteration of it, RunReturn the loop's exit.     *)
(*                                                                         *)
(* Numbers.  uint32_t values that take part in wrapping arithmetic are     *)
(* words of two 16-bit limbs <<hi, lo>>, so that the arithmetic modulo     *)
(* 2^32 of the code is computed at its width.  float and double values     *)
(* are exact rationals <<n, d>> (d > 0, lowest terms): the rounding of     *)
(* IEEE arithmetic is not modelled, every value is taken to be finite,     *)
(* and a sample or gain that needs a numerator or denominator above        *)
(* ExactLimit becomes Any = <<0, 0>>, "some finite value".  What the       *)
(* model keeps exact is what the properties below rest on: 0 * x = 0,      *)
(* 0 + x = x, 1 * x = x and x - x = 0.                                     *)
(*                                                                         *)
(* The delay buffer spu_buffer is kept sparse: a function from the cells   *)
(* that hold a non-zero value to that value; every other cell of           *)
(* 0 .. spu_buffer_count - 1 holds 0.                                      *)
(***************************************************************************)
EXTENDS Integers, Sequences, FiniteSets

VARIABLES
    life,                  \* "none", "null", "inactive", "active", "freed"
    rate,                  \* the sample rate (Hz) the host instantiates with
    spu_buffer_count,      \* word
    spu_buffer_count_mask, \* word (the low 32 bits of the size_t)
    spu_buffer,            \* sparse delay buffer
    BufferAddress,         \* the write cursor
    preset,                \* the recorded preset index (an int)
    port_preset,           \* the preset port as the last run() read it, in halves
    par,                   \* the converted reverb parameters
    dry, wet, master,      \* the smoothed gains
    pc,                    \* "idle" or "loop": where run() is
    i, n_samples,          \* run()'s loop counter and its block length
    coef,                  \* run()'s locals <<wet_coef, dry_coef, master_coef>>
    inp, out,              \* the input and output pair of run()'s last sample
    table_index,           \* <<k>>: presets[k] was the last row read; <<>>: none yet
    fault,                 \* an out-of-bounds read of presets ended the process
    loaded,                \* the run() in progress called preset_load
    reported,              \* the run() in progress logged "Invalid Preset"
    accesses,              \* the mem() accesses of run()'s last sample
    silent,                \* only zero input since the buffer was last zeroed
    since_zero             \* samples processed since the buffer was last zeroed

vars == <<life, rate, spu_buffer_count, spu_buffer_count_mask, spu_buffer,
          BufferAddress, preset, port_preset, par, dry, wet, master, pc, i,
          n_samples, coef, inp, out, table_index, fault, loaded, reported,
          accesses, silent, since_zero>>

---------------------------------------------------------------------------
(* Program constants.                                                      *)

NUM_PRESETS == 10

SPU_REV_RATE == 22050

SPU_REV_PRESET_LONGEST_COUNT == \H18040 \div 2

---------------------------------------------------------------------------
(* Bounds of the model.                                                    *)

\* run() is called with n_samples in 0 .. MaxBlock.
MaxBlock == 2

\* An activation is followed for MaxCursor samples; in a long session
\* (SpecLong) on a buffer of at most MaxCursor + 6 cells for twice the
\* buffer's size and one sample more, so that the cursor wraps.
MaxCursor == 2

\* Non-zero input arrives only in the first MaxLoud samples after the
\* buffer was zeroed: an impulse, then silence.
MaxLoud == 1

\* Samples and gains are exact up to this numerator and denominator.
ExactLimit == 4096

\* The sample rates 1 .. MaxLowRate and 2 + k * RateStride, k in
\* 0 .. MaxRateIndex, are those the buffer sizing is checked for.
MaxLowRate == 64

RateStride == 7000003

MaxRateIndex == 300

---------------------------------------------------------------------------
(* uint32_t as two 16-bit limbs.                                           *)

Limb == 65536

W(n) == <<n \div Limb, n % Limb>>

WVal(w) == w[1] * Limb + w[2]

WAdd(a, b) ==
    LET lo == a[2] + b[2]
    IN  <<(a[1] + b[1] + lo \div Limb) % Limb, lo % Limb>>

WSub(a, b) ==
    LET lo == a[2] - b[2]
        borrow == IF lo < 0 THEN 1 ELSE 0
    IN  <<(a[1] - b[1] - borrow) % Limb, lo % Limb>>

RECURSIVE AndN(_, _)
AndN(a, b) ==
    IF a = 0 \/ b = 0 THEN 0
    ELSE (a % 2) * (b % 2) + 2 * AndN(a \div 2, b \div 2)

RECURSIVE OrN(_, _)
OrN(a, b) ==
    IF a = 0 THEN b
    ELSE IF b = 0 THEN a
    ELSE (IF a % 2 = 1 \/ b % 2 = 1 THEN 1 ELSE 0) + 2 * OrN(a \div 2, b \div 2)

WAnd(a, b) == <<AndN(a[1], b[1]), AndN(a[2], b[2])>>

WOr(a, b) == <<OrN(a[1], b[1]), OrN(a[2], b[2])>>

\* x >> s, for s in {1, 2, 4, 8, 16}
WShr(a, s) ==
    IF s = 16 THEN <<0, a[1]>>
    ELSE <<a[1] \div (2 ^ s), a[2] \div (2 ^ s) + (a[1] % (2 ^ s)) * (2 ^ (16 - s))>>

ceilpower2(x) ==
    LET x0 == WSub(x, W(1))
        x1 == WOr(x0, WShr(x0, 1))
        x2 == WOr(x1, WShr(x1, 2))
        x3 == WOr(x2, WShr(x2, 4))
        x4 == WOr(x3, WShr(x3, 8))
        x5 == WOr(x4, WShr(x4, 16))
    IN  WAdd(x5, W(1))

---------------------------------------------------------------------------
(* float and double values as exact rationals.                             *)

RECURSIVE GCD(_, _)
GCD(a, b) == IF b = 0 THEN a ELSE GCD(b, a % b)

Abs(n) == IF n < 0 THEN -n ELSE n

\* n / d in lowest terms, d # 0
Q(n, d) ==
    LET s == IF d < 0 THEN -1 ELSE 1
        g == GCD(Abs(n), Abs(d))
    IN  <<(s * n) \div g, (s * d) \div g>>

Zero == <<0, 1>>

One == <<1, 1>>

Any == <<0, 0>>

IsAny(x) == x[2] = 0

Small(x) == Abs(x[1]) <= ExactLimit /\ x[2] <= ExactLimit

Fit(x) == IF Small(x) THEN x ELSE Any

FNeg(x) == <<-x[1], x[2]>>

FMul(x, y) ==
    IF x = Zero \/ y = Zero THEN Zero
    ELSE IF IsAny(x) \/ IsAny(y) THEN Any
    ELSE IF x = One THEN y
    ELSE IF y = One THEN x
    ELSE IF x = FNeg(One) THEN FNeg(y)
    ELSE IF y = FNeg(One) THEN FNeg(x)
    ELSE IF ~Small(x) \/ ~Small(y) THEN Any
    ELSE Fit(Q(x[1] * y[1], x[2] * y[2]))

FAdd(x, y) ==
    IF x = Zero THEN y
    ELSE IF y = Zero THEN x
    ELSE IF IsAny(x) \/ IsAny(y) THEN Any
    ELSE IF x = FNeg(y) THEN Zero
    ELSE IF ~Small(x) \/ ~Small(y) THEN Any
    ELSE Fit(Q(x[1] * y[2] + y[1] * x[2], x[2] * y[2]))

FSub(x, y) == FAdd(x, FNeg(y))

---------------------------------------------------------------------------
(* The preset table and its conversion (preset_load).                      *)

presets == <<
    \* Name: Room, SPU mem required: 0x26C0
    <<
       \H007D, \H005B, \H6D80, \H54B8, \HBED0, \H0000, \H0000, \HBA80,
       \H5800, \H5300, \H04D6, \H0333, \H03F0, \H0227, \H0374, \H01EF,
       \H0334, \H01B5, \H0000, \H0000, \H0000, \H0000, \H0000, \H0000,
       \H0000, \H0000, \H01B4, \H0136, \H00B8, \H005C, \H8000, \H8000 >>,
    \* Name: Studio Small, SPU mem required: 0x1F40
    <<
       \H0033, \H0025, \H70F0, \H4FA8, \HBCE0, \H4410, \HC0F0, \H9C00,
       \H5280, \H4EC0, \H03E4, \H031B, \H03A4, \H02AF, \H0372, \H0266,
       \H031C, \H025D, \H025C, \H018E, \H022F, \H0135, \H01D2, \H00B7,
       \H018F, \H00B5, \H00B4, \H0080, \H004C, \H0026, \H8000, \H8000 >>,
    \* Name: Studio Medium, SPU mem required: 0x4840
    <<
       \H00B1, \H007F, \H70F0, \H4FA8, \HBCE0, \H4510, \HBEF0, \HB4C0,
       \H5280, \H4EC0, \H0904, \H076B, \H0824, \H065F, \H07A2, \H0616,
       \H076C, \H05ED, \H05EC, \H042E, \H050F, \H0305, \H0462, \H02B7,
       \H042F, \H0265, \H0264, \H01B2, \H0100, \H0080, \H8000, \H8000 >>,
    \* Name: Studio Large, SPU mem required: 0x6FE0
    <<
       \H00E3, \H00A9, \H6F60, \H4FA8, \HBCE0, \H4510, \HBEF0, \HA680,
       \H5680, \H52C0, \H0DFB, \H0B58, \H0D09, \H0A3C, \H0BD9, \H0973,
       \H0B59, \H08DA, \H08D9, \H05E9, \H07EC, \H04B0, \H06EF, \H03D2,
       \H05EA, \H031D, \H031C, \H0238, \H0154, \H00AA, \H8000, \H8000 >>,
    \* Name: Hall, SPU mem required: 0xADE0
    <<
       \H01A5, \H0139, \H6000, \H5000, \H4C00, \HB800, \HBC00, \HC000,
       \H6000, \H5C00, \H15BA, \H11BB, \H14C2, \H10BD, \H11BC, \H0DC1,
       \H11C0, \H0DC3, \H0DC0, \H09C1, \H0BC4, \H07C1, \H0A00, \H06CD,
       \H09C2, \H05C1, \H05C0, \H041A, \H0274, \H013A, \H8000, \H8000 >>,
    \* Name: Half Echo, SPU mem required: 0x3C00
    <<
       \H0017, \H0013, \H70F0, \H4FA8, \HBCE0, \H4510, \HBEF0, \H8500,
       \H5F80, \H54C0, \H0371, \H02AF, \H02E5, \H01DF, \H02B0, \H01D7,
       \H0358, \H026A, \H01D6, \H011E, \H012D, \H00B1, \H011F, \H0059,
       \H01A0, \H00E3, \H0058, \H0040, \H0028, \H0014, \H8000, \H8000 >>,
    \* Name: Space Echo, SPU mem required: 0xF6C0
    <<
       \H033D, \H0231, \H7E00, \H5000, \HB400, \HB000, \H4C00, \HB000,
       \H6000, \H5400, \H1ED6, \H1A31, \H1D14, \H183B, \H1BC2, \H16B2,
       \H1A32, \H15EF, \H15EE, \H1055, \H1334, \H0F2D, \H11F6, \H0C5D,
       \H1056, \H0AE1, \H0AE0, \H07A2, \H0464, \H0232, \H8000, \H8000 >>,
    \* Name: Chaos Echo, SPU mem required: 0x18040
    <<
       \H0001, \H0001, \H7FFF, \H7FFF, \H0000, \H0000, \H0000, \H8100,
       \H0000, \H0000, \H1FFF, \H0FFF, \H1005, \H0005, \H0000, \H0000,
       \H1005, \H0005, \H0000, \H0000, \H0000, \H0000, \H0000, \H0000,
       \H0000, \H0000, \H1004, \H1002, \H0004, \H0002, \H8000, \H8000 >>,
    \* Name: Delay, SPU mem required: 0x18040
    <<
       \H0001, \H0001, \H7FFF, \H7FFF, \H0000, \H0000, \H0000, \H0000,
       \H0000, \H0000, \H1FFF, \H0FFF, \H1005, \H0005, \H0000, \H0000,
       \H1005, \H0005, \H0000, \H0000, \H0000, \H0000, \H0000, \H0000,
       \H0000, \H0000, \H1004, \H1002, \H0004, \H0002, \H8000, \H8000 >>,
    \* Name: Off, SPU mem required: 0x10
    <<
       \H0000, \H0000, \H0000, \H0000, \H0000, \H0000, \H0000, \H0000,
       \H0000, \H0000, \H0001, \H0001, \H0001, \H0001, \H0001, \H0001,
       \H0000, \H0000, \H0001, \H0001, \H0001, \H0001, \H0001, \H0001,
       \H0000, \H0000, \H0001, \H0001, \H0001, \H0001, \H0000, \H0000 >>
>>

\* struct PsxReverbPreset, in declaration order
FieldNames ==
    <<"dAPF1", "dAPF2", "vIIR", "vCOMB1", "vCOMB2", "vCOMB3", "vCOMB4", "vWALL",
      "vAPF1", "vAPF2", "mLSAME", "mRSAME", "mLCOMB1", "mRCOMB1", "mLCOMB2", "mRCOMB2",
      "dLSAME", "dRSAME", "mLDIFF", "mRDIFF", "mLCOMB3", "mRCOMB3", "mLCOMB4", "mRCOMB4",
      "dLDIFF", "dRDIFF", "mLAPF1", "mRAPF1", "mLAPF2", "mRAPF2", "vLIN", "vRIN">>

Fields == {FieldNames[k] : k \in 1..Len(FieldNames)}

\* the int16_t members of the struct; the others are uint16_t
SignedFields ==
    {"vIIR", "vCOMB1", "vCOMB2", "vCOMB3", "vCOMB4", "vWALL", "vAPF1", "vAPF2",
     "vLIN", "vRIN"}

ToInt16(u) == IF u >= 32768 THEN u - 65536 ELSE u

\* member f of a row of uint16_t read through the struct
PsxReverbPreset(row, f) ==
    IF f \in SignedFields
    THEN ToInt16(row[CHOOSE j \in 1..Len(FieldNames) : FieldNames[j] = f])
    ELSE row[CHOOSE j \in 1..Len(FieldNames) : FieldNames[j] = f]

s2f(v) == Q(v, 32768)

\* The corner frequency is kept as 2 * pi * fc, which is rational.
\* alpha = 0 gives dt / alpha = +inf, fc_inv = +inf and fc = 0.
alpha2fc(alpha, samplerate) ==
    IF alpha[1] = 0 THEN Zero
    ELSE Q(alpha[1] * samplerate, alpha[2] - alpha[1])

\* fc = 0 gives rc = +inf and dt / (rc + dt) = 0.
fc2alpha(fc, samplerate) ==
    IF fc[1] = 0 THEN Zero
    ELSE Q(fc[1], fc[2] * samplerate + fc[1])

stretch_factor(r) == Q(r, SPU_REV_RATE)

\* the conversion rounding up instead of truncating
ScaledUp(raw, r) ==
    ((raw * 4) * stretch_factor(r)[1] + stretch_factor(r)[2] - 1)
        \div stretch_factor(r)[2]

\* (uint32_t)((raw << 2) * stretch_factor)
Scaled(raw, r) == ((raw * 4) * stretch_factor(r)[1]) \div stretch_factor(r)[2]

\* the converted reverb parameters of a table row at sample rate r
Convert(row, r) ==
    [f \in Fields |->
        IF f = "vIIR"
        THEN fc2alpha(alpha2fc(s2f(PsxReverbPreset(row, f)), SPU_REV_RATE), r)
        ELSE IF f \in SignedFields THEN s2f(PsxReverbPreset(row, f))
        ELSE Scaled(PsxReverbPreset(row, f), r)]

\* the parameters calloc leaves
ZeroPar == [f \in Fields |-> IF f \in SignedFields THEN Zero ELSE 0]

\* What a read of presets[k] with k < 0 can find: the table is a static
\* array, the read is outside it and its outcome is not defined.
OutOfBoundsRows ==
    {[k \in 1..32 |-> 65535], [k \in 1..32 |-> 257 * k]}

EmptyBuffer == [k \in {} |-> Zero]

\* preset_load with a wrong memset: the buffer is cleared before the range
\* check, so a rejected index clears it too
InvalidPresetClears(preset_index) ==
    {[preset |-> preset_index, par |-> par, spu_buffer |-> EmptyBuffer,
      table_index |-> table_index, reported |-> TRUE, fault |-> FALSE,
      zeroed |-> TRUE]}

\* preset_load's early return: the index is recorded, "Invalid Preset" is
\* logged, nothing else is touched.  zeroed: the memset at its end ran.
InvalidPreset(preset_index) ==
    {[preset |-> preset_index, par |-> par, spu_buffer |-> spu_buffer,
      table_index |-> table_index, reported |-> TRUE, fault |-> FALSE,
      zeroed |-> FALSE]}

\* preset_load without its memset: the parameters are converted, the buffer
\* keeps its content
LoadRowNoMemset(preset_index, row) ==
    [preset |-> preset_index, par |-> Convert(row, rate),
     spu_buffer |-> spu_buffer, table_index |-> <<preset_index>>,
     reported |-> FALSE, fault |-> FALSE, zeroed |-> FALSE]

\* preset_load past its range check, with row what &presets[preset_index]
\* points to: every parameter is converted from row, the buffer is zeroed
LoadRow(preset_index, row) ==
    [preset |-> preset_index, par |-> Convert(row, rate),
     spu_buffer |-> EmptyBuffer, table_index |-> <<preset_index>>,
     reported |-> FALSE, fault |-> FALSE, zeroed |-> TRUE]

\* preset_load(psx_rev, preset_index): the set of its possible outcomes.
\* Only preset_index >= NUM_PRESETS is rejected; a negative index reads
\* before the table, which finds some row or ends the process.
preset_load(preset_index) ==
    IF preset_index >= NUM_PRESETS
    THEN InvalidPreset(preset_index)
    ELSE IF preset_index >= 0
    THEN {LoadRow(preset_index, presets[preset_index + 1])}
    ELSE {LoadRow(preset_index, row) : row \in OutOfBoundsRows}
         \cup
         {[preset |-> preset_index, par |-> par, spu_buffer |-> spu_buffer,
           table_index |-> <<preset_index>>, reported |-> FALSE,
           fault |-> TRUE, zeroed |-> FALSE]}

---------------------------------------------------------------------------
(* instantiate                                                             *)

\* a * b as <<hi, lo>>, lo a 16-bit limb, for a < 2^16 and b < 2^31
Mul16(a, b) ==
    LET bh == b \div Limb
        bl == b % Limb
        ah == a \div 256
        al == a % 256
        t  == ah * bl
        lo == (t % 256) * 256 + al * bl
    IN  <<t \div 256 + a * bh + lo \div Limb, lo % Limb>>

\* ceil(SPU_REV_PRESET_LONGEST_COUNT * (rate / SPU_REV_RATE)), the double,
\* as <<hi, lo>>: hi is not bounded by 2^16
ScaledLongest(r) ==
    LET q == r \div SPU_REV_RATE
        m == r % SPU_REV_RATE
        c == (SPU_REV_PRESET_LONGEST_COUNT * m + SPU_REV_RATE - 1) \div SPU_REV_RATE
        p == Mul16(SPU_REV_PRESET_LONGEST_COUNT, q)
        lo == p[2] + c
    IN  <<p[1] + lo \div Limb, lo % Limb>>

\* (uint32_t) of a double: the value when it is below 2^32; the conversion
\* of a larger one is not defined
ToUint32(d) ==
    IF d[1] < Limb THEN {d}
    ELSE {<<0, 0>>, <<32768, 0>>, <<65535, 65535>>}

---------------------------------------------------------------------------
(* run: the gains and the per-sample filter graph.                         *)

\* powf(10.0f, g * 0.05f) for a gain g in dB: exact when g is a multiple
\* of 20, some finite value otherwise
Pow10(g) ==
    IF g % 20 # 0 THEN Any
    ELSE IF g >= 0 THEN Q(10 ^ (g \div 20), 1)
    ELSE Q(1, 10 ^ ((-g) \div 20))

DB_CO(g) == IF g > -90 THEN Pow10(g) ELSE Zero

\* the constant 0.001f
Milli == Q(1, 1000)

\* v += 0.001f * (target - v)
Smooth(v, target) == FAdd(v, FMul(Milli, FSub(target, v)))

\* mem() masking with the buffer size instead of size - 1
memCount(idx) == WVal(WAnd(WAdd(idx, W(BufferAddress)), spu_buffer_count))

\* the cell mem(idx) names: (unsigned)((idx) + BufferAddress) & mask
mem(idx) == WVal(WAnd(WAdd(idx, W(BufferAddress)), spu_buffer_count_mask))

\* The index expressions run() hands to mem(), each with the offset it
\* stands for as an integer: mem(rev->m), mem(rev->m - 1), mem(rev->m - rev->d).
\* cursor: BufferAddress at the access.
TapAt(m) ==
    [off |-> par[m], cursor |-> BufferAddress, cell |-> mem(W(par[m]))]

TapBefore(m) ==
    [off |-> par[m] - 1, cursor |-> BufferAddress,
     cell |-> mem(WSub(W(par[m]), W(1)))]

TapBack(m, d) ==
    [off |-> par[m] - par[d], cursor |-> BufferAddress,
     cell |-> mem(WSub(W(par[m]), W(par[d])))]

Cell(buf, k) == IF k \in DOMAIN buf THEN buf[k] ELSE Zero

Store(buf, k, v) ==
    IF v = Zero
    THEN [c \in DOMAIN buf \ {k} |-> buf[c]]
    ELSE [c \in DOMAIN buf \cup {k} |-> IF c = k THEN v ELSE buf[c]]

\* mem(m) = (in + mem(d) * vWALL - mem(m-1)) * vIIR + mem(m-1)
Reflect(buf, in, m, d) ==
    CHOOSE b \in
        {Store(buf, k, FAdd(FMul(FSub(FAdd(in, wall), prev), par["vIIR"]), prev)) :
            k \in {TapAt(m).cell},
            prev \in {Cell(buf, TapBefore(m).cell)},
            wall \in {FMul(Cell(buf, TapAt(d).cell), par["vWALL"])}} : TRUE

\* vCOMB1 * mem(c1) + vCOMB2 * mem(c2) + vCOMB3 * mem(c3) + vCOMB4 * mem(c4)
Comb(buf, c1, c2, c3, c4) ==
    FAdd(FAdd(FAdd(FMul(par["vCOMB1"], Cell(buf, TapAt(c1).cell)),
                   FMul(par["vCOMB2"], Cell(buf, TapAt(c2).cell))),
              FMul(par["vCOMB3"], Cell(buf, TapAt(c3).cell))),
         FMul(par["vCOMB4"], Cell(buf, TapAt(c4).cell)))

\* x -= v * mem(m - d); mem(m) = x; x = x * v + mem(m - d)
Allpass(buf, x, v, m, d) ==
    CHOOSE a \in
        {[buf |-> Store(buf, k, x1),
          val |-> FAdd(FMul(x1, par[v]), Cell(Store(buf, k, x1), back))] :
            k \in {TapAt(m).cell},
            back \in {TapBack(m, d).cell},
            x1 \in {FSub(x, FMul(par[v], Cell(buf, TapBack(m, d).cell)))}} : TRUE

\* every mem() access of one pass through the loop body
Taps ==
    {TapAt(m) : m \in {"mLSAME", "mRSAME", "dLSAME", "dRSAME", "mLDIFF", "mRDIFF",
                       "dLDIFF", "dRDIFF", "mLCOMB1", "mLCOMB2", "mLCOMB3",
                       "mLCOMB4", "mRCOMB1", "mRCOMB2", "mRCOMB3", "mRCOMB4",
                       "mLAPF1", "mRAPF1", "mLAPF2", "mRAPF2"}}
    \cup {TapBefore(m) : m \in {"mLSAME", "mRSAME", "mLDIFF", "mRDIFF"}}
    \cup {TapBack("mLAPF1", "dAPF1"), TapBack("mRAPF1", "dAPF1"),
          TapBack("mLAPF2", "dAPF2"), TapBack("mRAPF2", "dAPF2")}

\* BufferAddress = (BufferAddress + 1) & mask
Advance == WVal(WAnd(W(BufferAddress + 1), spu_buffer_count_mask))

\* the input stage adding the input volume instead of scaling by it
InputMixAdd(v, x) == FAdd(v, x)

\* Lin = rev->vLIN * LeftInput, Rin = rev->vRIN * RightInput
InputMix(v, x) == FMul(v, x)

\* (x * wet + in * dry) * master
Mix(x, in, d, w, m) == FMul(FAdd(FMul(x, w), FMul(in, d)), m)

---------------------------------------------------------------------------
(* What the host supplies.                                                 *)

\* the sample rates of the instances that are followed through their life
SampleRates == {1, 2, SPU_REV_RATE, 2 * SPU_REV_RATE}

\* the sample rates the buffer sizing alone is checked for
SizeRates ==
    (1..MaxLowRate) \cup {2 + k * RateStride : k \in 0..MaxRateIndex}
    \cup {SPU_REV_RATE, 2 * SPU_REV_RATE, 48000, 96000, 192000}

\* the float in the preset control port, in halves: -1.0, -0.5, 0.0, 1.0,
\* ..., 9.0, 9.5, 10.0, 999.0
PortPresetHalves ==
    {-2, -1} \cup {2 * k : k \in 0..(NUM_PRESETS - 1)} \cup {19, 20, 1998}

\* (int) of the float h / 2: the fraction is dropped, towards zero
ToInt(h) == IF h >= 0 THEN h \div 2 ELSE -((-h) \div 2)

\* the wet, dry and master ports, in dB
GainSettings == {<<0, 0, 0>>, <<-90, -20, 20>>}

\* the input sample pairs
Silence == <<Zero, Zero>>

InputPairs == {Silence, <<One, Zero>>}

---------------------------------------------------------------------------
(* The state before instantiate: no instance; calloc will zero its fields. *)

NoInstance ==
    /\ life = "none"
    /\ spu_buffer_count = W(0)
    /\ spu_buffer_count_mask = W(0)
    /\ spu_buffer = EmptyBuffer
    /\ BufferAddress = 0
    /\ preset = 0
    /\ port_preset = 0
    /\ par = ZeroPar
    /\ dry = Zero /\ wet = Zero /\ master = Zero
    /\ pc = "idle"
    /\ i = 0 /\ n_samples = 0
    /\ coef = <<Zero, Zero, Zero>>
    /\ inp = Silence /\ out = Silence
    /\ table_index = <<>>
    /\ fault = FALSE
    /\ loaded = FALSE
    /\ reported = FALSE
    /\ accesses = {}
    /\ silent = TRUE
    /\ since_zero = 0

Init == rate \in SampleRates /\ NoInstance

InitSize == rate \in SizeRates /\ NoInstance

---------------------------------------------------------------------------
(* The host's calls.                                                       *)

instantiate ==
    /\ life = "none"
    /\ \/ /\ rate <= 1
          /\ life' = "null"
          /\ UNCHANGED <<spu_buffer_count, spu_buffer_count_mask>>
       \/ /\ rate > 1
          /\ \E x \in ToUint32(ScaledLongest(rate)), allocated \in BOOLEAN :
                IF allocated
                THEN /\ life' = "inactive"
                     /\ spu_buffer_count' = ceilpower2(x)
                     /\ spu_buffer_count_mask' = WSub(ceilpower2(x), W(1))
                ELSE /\ life' = "null"
                     /\ UNCHANGED <<spu_buffer_count, spu_buffer_count_mask>>
    /\ UNCHANGED <<rate, spu_buffer, BufferAddress, preset, port_preset, par,
                   dry, wet, master, pc, i, n_samples, coef, inp, out,
                   table_index, fault, loaded, reported, accesses, silent,
                   since_zero>>

\* what stays as it is when preset_load is not called
NoLoad ==
    [preset |-> preset, par |-> par, spu_buffer |-> spu_buffer,
     table_index |-> table_index, reported |-> FALSE, fault |-> FALSE,
     zeroed |-> FALSE]

\* activate keeping the index that was active before
ActivatePresetKept == preset

\* psx_rev->preset = 0
ActivatePreset == 0

\* activate without its call of preset_load
ActivateNoLoad == {NoLoad}

\* preset_load(psx_rev, psx_rev->preset)
ActivateLoad == preset_load(ActivatePreset)

activate ==
    /\ life = "inactive"
    /\ ~fault
    /\ \E r \in ActivateLoad :
          /\ preset' = r.preset
          /\ par' = r.par
          /\ table_index' = r.table_index
          /\ fault' = r.fault
    /\ dry' = One /\ wet' = One /\ master' = One
    /\ BufferAddress' = 0
    /\ spu_buffer' = EmptyBuffer
    /\ life' = "active"
    /\ silent' = TRUE
    /\ since_zero' = 0
    /\ UNCHANGED <<rate, spu_buffer_count, spu_buffer_count_mask, port_preset,
                   pc, i, n_samples, coef, inp, out, loaded, reported, accesses>>

\* run() comparing the selector and never calling preset_load
RequestedNever(h) == {NoLoad}

\* int preset = (int)*rev->port_preset;
\* if (preset != rev->preset) preset_load(rev, preset);
Requested(h) ==
    IF ToInt(h) # preset THEN preset_load(ToInt(h)) ELSE {NoLoad}

\* run(), up to its loop, called with n_samples = n, the preset port at
\* h / 2 and the gain ports at g
run(n, h, g) ==
    /\ life = "active" /\ pc = "idle" /\ ~fault
    /\ port_preset' = h
    /\ loaded' = (ToInt(h) # preset)
    /\ \E r \in Requested(h) :
          /\ preset' = r.preset
          /\ par' = r.par
          /\ spu_buffer' = r.spu_buffer
          /\ table_index' = r.table_index
          /\ reported' = r.reported
          /\ fault' = r.fault
          /\ silent' = (r.zeroed \/ silent)
          /\ since_zero' = (IF r.zeroed THEN 0 ELSE since_zero)
    /\ coef' = <<DB_CO(g[1]), DB_CO(g[2]), DB_CO(g[3])>>
    /\ n_samples' = n
    /\ i' = 0
    /\ pc' = "loop"
    /\ UNCHANGED <<life, rate, spu_buffer_count, spu_buffer_count_mask,
                   BufferAddress, dry, wet, master, inp, out, accesses>>

\* the host calls run(): any selector, a block that ends within MaxCursor
\* samples of the activation
RunBegin ==
    \E h \in PortPresetHalves, n \in 0..MaxBlock, g \in GainSettings :
        /\ BufferAddress + n <= MaxCursor
        /\ run(n, h, g)

\* the host calls run() in a long session: the selector is a shipped preset,
\* chosen before the first sample and kept
RunBeginLong ==
    \E h \in {2 * k : k \in 0..(NUM_PRESETS - 1)}, n \in 0..MaxBlock,
       g \in GainSettings :
        /\ ToInt(h) = preset \/ (BufferAddress = 0 /\ since_zero = 0)
        /\ IF WVal(spu_buffer_count) <= MaxCursor + 6
           THEN since_zero + n <= 2 * WVal(spu_buffer_count) + 1
           ELSE BufferAddress + n <= MaxCursor
        /\ run(n, h, g)

\* one iteration of run()'s loop
RunSample ==
    /\ pc = "loop" /\ i < n_samples /\ ~fault
    /\ \E in \in InputPairs :
        /\ in = Silence \/ since_zero < MaxLoud
        /\ \E d1 \in {Smooth(dry, coef[2])}, w1 \in {Smooth(wet, coef[1])},
              m1 \in {Smooth(master, coef[3])},
              Lin \in {InputMix(par["vLIN"], in[1])},
              Rin \in {InputMix(par["vRIN"], in[2])} :
           \* same side reflection
           \E b1 \in {Reflect(spu_buffer, Lin, "mLSAME", "dLSAME")} :
           \E b2 \in {Reflect(b1, Rin, "mRSAME", "dRSAME")} :
           \* different side reflection
           \E b3 \in {Reflect(b2, Lin, "mLDIFF", "dRDIFF")} :
           \E b4 \in {Reflect(b3, Rin, "mRDIFF", "dLDIFF")} :
           \* early echo
           \E L0 \in {Comb(b4, "mLCOMB1", "mLCOMB2", "mLCOMB3", "mLCOMB4")},
              R0 \in {Comb(b4, "mRCOMB1", "mRCOMB2", "mRCOMB3", "mRCOMB4")} :
           \* late reverb APF1
           \E aL1 \in {Allpass(b4, L0, "vAPF1", "mLAPF1", "dAPF1")} :
           \E aR1 \in {Allpass(aL1.buf, R0, "vAPF1", "mRAPF1", "dAPF1")} :
           \* late reverb APF2
           \E aL2 \in {Allpass(aR1.buf, aL1.val, "vAPF2", "mLAPF2", "dAPF2")} :
           \E aR2 \in {Allpass(aL2.buf, aR1.val, "vAPF2", "mRAPF2", "dAPF2")} :
              /\ dry' = d1 /\ wet' = w1 /\ master' = m1
              /\ spu_buffer' = aR2.buf
              /\ BufferAddress' = Advance
              /\ out' = <<Mix(aL2.val, Lin, d1, w1, m1), Mix(aR2.val, Rin, d1, w1, m1)>>
              /\ inp' = in
              /\ silent' = (silent /\ in = Silence)
    /\ accesses' = Taps
    /\ since_zero' = since_zero + 1
    /\ i' = i + 1
    /\ UNCHANGED <<life, rate, spu_buffer_count, spu_buffer_count_mask, preset,
                   port_preset, par, pc, n_samples, coef, table_index, fault,
                   loaded, reported>>

\* the loop's exit: run() returns
RunReturn ==
    /\ pc = "loop" /\ i = n_samples /\ ~fault
    /\ pc' = "idle"
    /\ i' = 0 /\ n_samples' = 0
    /\ coef' = <<Zero, Zero, Zero>>
    /\ inp' = Silence /\ out' = Silence
    /\ loaded' = FALSE /\ reported' = FALSE
    /\ accesses' = {}
    /\ UNCHANGED <<life, rate, spu_buffer_count, spu_buffer_count_mask,
                   spu_buffer, BufferAddress, preset, port_preset, par, dry,
                   wet, master, table_index, fault, silent, since_zero>>

deactivate ==
    /\ life = "active" /\ pc = "idle" /\ ~fault
    /\ life' = "inactive"
    /\ UNCHANGED <<rate, spu_buffer_count, spu_buffer_count_mask, spu_buffer,
                   BufferAddress, preset, port_preset, par, dry, wet, master,
                   pc, i, n_samples, coef, inp, out, table_index, fault,
                   loaded, reported, accesses, silent, since_zero>>

\* free(rev->spu_buffer); free(rev): the instance is gone
cleanup ==
    /\ life = "inactive" /\ ~fault
    /\ life' = "freed"
    /\ spu_buffer_count' = W(0)
    /\ spu_buffer_count_mask' = W(0)
    /\ spu_buffer' = EmptyBuffer
    /\ BufferAddress' = 0
    /\ preset' = 0
    /\ port_preset' = 0
    /\ par' = ZeroPar
    /\ dry' = Zero /\ wet' = Zero /\ master' = Zero
    /\ table_index' = <<>>
    /\ silent' = TRUE
    /\ since_zero' = 0
    /\ UNCHANGED <<rate, pc, i, n_samples, coef, inp, out, fault, loaded,
                   reported, accesses>>

Next ==
    \/ instantiate
    \/ activate
    \/ RunBegin
    \/ RunSample
    \/ RunReturn
    \/ deactivate
    \/ cleanup

Spec == Init /\ [][Next]_vars

NextLong ==
    \/ instantiate
    \/ activate
    \/ RunBeginLong
    \/ RunSample
    \/ RunReturn
    \/ deactivate
    \/ cleanup

\* long sessions with one shipped preset
SpecLong == Init /\ [][NextLong]_vars

\* the buffer sizing alone, over a wide range of sample rates
SpecSize == InitSize /\ [][instantiate]_vars

\* the lowest rate at which a table length of 1, shifted left by 2 and
\* scaled, is still 1: ceil(SPU_REV_RATE / 4)
QuarterRate == (SPU_REV_RATE + 3) \div 4

\* the sample rates the preset conversion is followed for
LoadRates ==
    (1..MaxLowRate)
    \cup {QuarterRate - 1, QuarterRate, SPU_REV_RATE, 2 * SPU_REV_RATE, 48000}

InitLoad == rate \in LoadRates /\ NoInstance

\* the host calls run() with a shipped selector, the gains at 0 dB and a
\* block of at most one sample
RunBeginShort ==
    \E h \in {2 * k : k \in 0..(NUM_PRESETS - 1)}, n \in 0..1 :
        /\ BufferAddress + n <= MaxCursor
        /\ run(n, h, <<0, 0, 0>>)

NextLoad ==
    \/ instantiate
    \/ activate
    \/ RunBeginShort
    \/ RunSample
    \/ RunReturn

\* every shipped preset loaded at low, threshold and usual sample rates
SpecLoad == InitLoad /\ [][NextLoad]_vars

---------------------------------------------------------------------------
(* Properties.                                                             *)

\* the buffer size as a number
size == WVal(spu_buffer_count)

\* the indices of the preset table
Shipped == 0..(NUM_PRESETS - 1)

\* the parameters of shipped preset p at this instance's sample rate
Derived(p) == Convert(presets[p + 1], rate)

\* the step in which run() is entered: it reads the ports, loads the
\* selected preset if it is not the recorded one, and reaches its loop
RunEntered == pc = "idle" /\ pc' = "loop"

\* C1: a load requested with an index of NUM_PRESETS or more is a no-op on
\* the parameters and on the delay buffer; it records the requested index as
\* the active one, and the call goes on to process its samples and return
\* (nothing has ended the process and the loop is within its block, which
\* is when RunSample or RunReturn can be taken).
C1_InvalidIndexIsNoOp ==
    /\ [][(RunEntered /\ ToInt(port_preset') # preset
                      /\ ToInt(port_preset') >= NUM_PRESETS)
            => /\ par' = par
               /\ spu_buffer' = spu_buffer
               /\ preset' = ToInt(port_preset')
               /\ ~fault']_vars
    /\ []((pc = "loop" /\ preset >= NUM_PRESETS)
            => ~fault /\ i \in 0..n_samples)

\* C1: a call that asked for preset 999 has processed its whole block, over
\* a delay buffer that an earlier call had filled and that is still filled
C1_Witness ==
    /\ pc = "loop" /\ loaded /\ preset = 999
    /\ n_samples >= 1 /\ i = n_samples
    /\ spu_buffer # EmptyBuffer
    /\ par = Derived(0)

\* C2: a selector outside [0, NUM_PRESETS), a negative one included, is
\* rejected: the preset table is never read at an index outside it, and the
\* load changes neither the parameters nor the delay buffer.
C2_OutOfRangeRejected ==
    /\ [](\A k \in 1..Len(table_index) : table_index[k] \in Shipped)
    /\ [][(RunEntered /\ ToInt(port_preset') \notin Shipped)
            => /\ par' = par
               /\ spu_buffer' = spu_buffer
               /\ ~fault']_vars

\* C3: run() reads the selector once, before its first sample: if it differs
\* from the recorded index the load happens then (for a shipped preset the
\* parameters are that preset's and the buffer is clear), if it is equal
\* nothing is loaded or cleared; no step of the loop changes the parameters
\* or the recorded index.
C3_SelectorSampledOnce ==
    [][/\ (RunEntered /\ ~fault')
            => /\ i' = 0
               /\ preset' = ToInt(port_preset')
               /\ loaded' = (ToInt(port_preset') # preset)
               /\ (loaded' /\ preset' \in Shipped)
                    => par' = Derived(preset') /\ spu_buffer' = EmptyBuffer
               /\ ~loaded' => par' = par /\ spu_buffer' = spu_buffer
       /\ pc = "loop" => par' = par /\ preset' = preset]_vars

\* C3: a call that found a new shipped selector has processed a non-silent
\* sample with that preset's parameters, after an earlier call had moved
\* the cursor
C3_Witness ==
    /\ pc = "loop" /\ loaded /\ i >= 1
    /\ preset \in Shipped /\ preset # 0
    /\ par = Derived(preset)
    /\ inp # Silence
    /\ BufferAddress >= 2

IsPowerOfTwo(w) == w # W(0) /\ WAnd(w, WSub(w, W(1))) = W(0)

\* a >= d and a < d for a word a and a number d given as <<hi, lo>>
WGeq(a, d) == a[1] > d[1] \/ (a[1] = d[1] /\ a[2] >= d[2])

WLess(a, d) == ~WGeq(a, d)

\* floor((raw << 2) * r / SPU_REV_RATE) as <<hi, lo>>, for raw << 2 < 2^16
OffsetAt(raw, r) ==
    LET p == Mul16(raw * 4, r \div SPU_REV_RATE)
        lo == p[2] + ((raw * 4) * (r % SPU_REV_RATE)) \div SPU_REV_RATE
    IN  <<p[1] + lo \div Limb, lo % Limb>>

\* C5: for any sample rate r >= 2 accepted at construction the buffer size
\* is a power of two, is at least ceil(0x18040/2 * r / 22050), and exceeds
\* every tap offset of every shipped preset at that rate.
C5_SizeIsPowerOfTwo ==
    (life = "inactive" /\ rate >= 2) =>
        /\ IsPowerOfTwo(spu_buffer_count)
        /\ WGeq(spu_buffer_count, ScaledLongest(rate))
        /\ \A p \in 1..NUM_PRESETS, k \in 1..Len(FieldNames) :
              FieldNames[k] \notin SignedFields
                  => WLess(OffsetAt(presets[p][k], rate), spu_buffer_count)

\* C6: a load of a shipped preset p leaves the buffer all zero and the
\* parameters those of (p, rate): whatever came before, whenever a shipped
\* index is the active one the parameters are Derived of it, and right after
\* a load in run() the buffer is empty.
C6_LoadDependsOnPresetAndRate ==
    (life = "active" /\ preset \in Shipped) =>
        /\ par = Derived(preset)
        /\ (loaded /\ i = 0) => spu_buffer = EmptyBuffer

\* C6: run() has just loaded preset 0 again, after samples were processed
\* under another index: activate loaded the same pair from zeroed
\* parameters, this load from another preset's
C6_Witness ==
    /\ pc = "loop" /\ loaded /\ i = 0
    /\ preset = 0 /\ BufferAddress >= 1
    /\ par = Derived(0) /\ spu_buffer = EmptyBuffer

\* C7: for a shipped preset and any gains, while only zero input has been
\* processed since the buffer was zeroed, every buffer cell is 0 and both
\* outputs are 0.
C7_SilenceInSilenceOut ==
    (life = "active" /\ silent /\ preset \in Shipped) =>
        /\ spu_buffer = EmptyBuffer
        /\ out = Silence

\* C7: 2 * size samples of silence have been processed since the load of
\* preset 6, with gains away from 0 dB
C7_Witness ==
    /\ pc = "loop" /\ silent /\ preset = 6
    /\ since_zero >= 2 * size
    /\ wet # One /\ dry # One /\ master # One

\* C8: with preset 9 ("Off") and the gains settled at 0 dB, every output
\* sample equals the input sample, on both channels.
C8_OffIsBypass ==
    (/\ pc = "loop" /\ i >= 1
     /\ preset = NUM_PRESETS - 1
     /\ dry = One /\ wet = One /\ master = One) => out = inp

\* the step in which activate runs
Activated == life = "inactive" /\ life' = "active"

\* C9 as stated: activate zeroes the buffer and reloads the index that was
\* active just before it, for every shipped index.
C9_ActivateReloadsActivePreset ==
    [][(Activated /\ preset \in Shipped)
         => /\ spu_buffer' = EmptyBuffer
            /\ preset' = preset
            /\ par' = Derived(preset)]_vars

\* C9: activate zeroes the buffer, resets the cursor and the gains, and
\* loads preset 0 whatever index was active before: after it the active
\* index is 0 and the parameters are those of preset 0.
C9_ActivateLoadsPresetZero ==
    [][Activated
         => /\ spu_buffer' = EmptyBuffer
            /\ BufferAddress' = 0
            /\ dry' = One /\ wet' = One /\ master' = One
            /\ preset' = 0
            /\ par' = Derived(0)]_vars

\* C9: activated again after a run() that had selected preset 3
C9_Witness ==
    /\ life = "active" /\ pc = "idle"
    /\ ToInt(port_preset) = 3
    /\ preset = 0 /\ par = Derived(0)
    /\ spu_buffer = EmptyBuffer /\ BufferAddress = 0

\* C10 as stated: from construction on, while the active index is the
\* default 0, the parameters are those of preset 0.
C10_ConstructionLoadsDefault ==
    (life \in {"inactive", "active"} /\ preset = 0) => par = Derived(0)

\* C10: construction leaves every parameter zero and loads nothing; it is
\* activate that loads preset 0, so in every run() with the selector at 0
\* the parameters are those of preset 0.
C10_ActivateLoadsDefault ==
    /\ (life = "inactive" /\ table_index = <<>>) => par = ZeroPar
    /\ (life = "active" /\ preset = 0) => par = Derived(0)

\* C10: a run() with the selector at 0 has processed a sample with the
\* parameters of preset 0, which differ from the constructed ones
C10_Witness ==
    /\ pc = "loop" /\ i >= 1
    /\ ToInt(port_preset) = 0 /\ preset = 0
    /\ par = Derived(0) /\ par # ZeroPar

\* before a step that enters run(): the last run() of this activation read
\* the same value h from the preset port (activate puts rev->preset back
\* to 0, so after it no selector outside the table is the recorded one)
SameAsLastCall(h) == port_preset = h /\ preset = ToInt(port_preset)

\* C11: an invalid selector is reported once per offending value: of
\* consecutive calls with the same selector outside [0, NUM_PRESETS), the
\* first calls preset_load and logs "Invalid Preset", the later ones
\* neither call it nor log, and leave the parameters and the buffer as
\* they are.
C11_InvalidReportedOnce ==
    [][(RunEntered /\ ToInt(port_preset') \notin Shipped)
         => IF SameAsLastCall(port_preset')
            THEN /\ ~loaded' /\ ~reported'
                 /\ par' = par /\ spu_buffer' = spu_buffer
            ELSE loaded' /\ reported']_vars

\* the two allpass stages of each channel: <<delay length, write tap>>
APFStages ==
    {<<"dAPF1", "mLAPF1">>, <<"dAPF1", "mRAPF1">>,
     <<"dAPF2", "mLAPF2">>, <<"dAPF2", "mRAPF2">>}

\* the table value of member f of shipped preset p
TableValue(p, f) == PsxReverbPreset(presets[p + 1], f)

\* the delayed tap mem(m - d) of an allpass stage is another cell than the
\* cell mem(m) the stage writes
DelayedTapApart(s) == TapBack(s[2], s[1]).cell # TapAt(s[2]).cell

\* C12 as stated: for every shipped preset at every supported sample rate
\* both allpass delay lengths are positive, and the delayed tap cell is
\* another cell than the one just written, for both channels.
C12_AllpassLengthsPositive ==
    (life = "active" /\ preset \in Shipped) =>
        \A s \in APFStages : par[s[1]] > 0 /\ DelayedTapApart(s)

\* C12: an allpass delay length of a loaded shipped preset is positive
\* exactly when 4 * (its table value) * rate >= SPU_REV_RATE, and exactly
\* then the delayed tap is another cell than the one just written.  That is
\* so for presets 0 to 8 at every rate from ceil(SPU_REV_RATE / 4) up; the
\* lengths of preset 9 are 0 at every rate.
C12_AllpassLengths ==
    (life = "active" /\ preset \in Shipped) =>
        \A s \in APFStages :
            /\ (par[s[1]] > 0)
                 = (4 * TableValue(preset, s[1]) * rate >= SPU_REV_RATE)
            /\ DelayedTapApart(s) = (par[s[1]] > 0)
            /\ (preset < NUM_PRESETS - 1 /\ rate >= QuarterRate)
                 => par[s[1]] > 0
            /\ preset = NUM_PRESETS - 1 => par[s[1]] = 0

\* C12: at the threshold rate a sample has been processed with preset 7,
\* whose lengths of 1 in the table give lengths of 1, the delayed taps
\* apart from the written cells
C12_Witness ==
    /\ pc = "loop" /\ i >= 1
    /\ rate = QuarterRate /\ preset = 7
    /\ par["dAPF1"] = 1 /\ par["dAPF2"] = 1
    /\ \A s \in APFStages : DelayedTapApart(s)

====
